---- MODULE Spec2Model ----
(***************************************************************************)
(* Model of the BeagleBone LED/button kernel module                        *)
(* (src/BeagleBone_LED-Button.c): the module's globals, the GPIO and IRQ   *)
(* resources it holds, and its four pieces of code as interleaved          *)
(* processes: ebbgpio_init, ebbgpio_exit, the interrupt handler            *)
(* ebbgpio_irq_handler and the kernel thread kThread_run.                  *)
(***************************************************************************)
EXTENDS Integers, FiniteSets, Sequences

\* ---------------------------------------------------------------- constants

gpioLedRED == 66
gpioLedGREEN == 67
gpioButton == 69
blinkPeriod == 1000

\* numberPresses is an unsigned int of 32 bits. It is kept as <<high, low>>,
\* two limbs of 16 bits, the value being high * 65536 + low.
Limb == 65536
UInt(n) == <<n \div Limb, n % Limb>>
UIntMax == <<Limb - 1, Limb - 1>>

Pins == {gpioLedRED, gpioLedGREEN, gpioButton}
Leds == {gpioLedRED, gpioLedGREEN}

\* enum modes {OFF, ON, FLASH}
OFF == "OFF"
ON == "ON"
FLASH == "FLASH"
Modes == {OFF, ON, FLASH}

\* static initialisers of the LED levels handed to gpio_direction_output
currentStateLedRED == TRUE
currentStateLedGREEN == FALSE

\* ------------------------------------------------------------------- bounds

MaxPresses == 3     \* interrupts delivered in one run
MaxTicks == 3       \* ticks counted in one run of constant mode
MaxSleeps == 4      \* sleeps timed since the last tick that wrote true

\* -------------------------------------------------------------------- state

VARIABLES
  validPins,      \* platform: the pins for which gpio_is_valid() is true
  reloadsMode,    \* build: whether line 47 loads mode again or reuses line 46's load
  mode,           \* enum modes mode
  numberPresses,  \* unsigned int numberPresses, as <<high, low>>
  ledOn,          \* bool ledOn
  gpioValue,      \* output level of each LED pin
  requested,      \* pins held through gpio_request
  exported,       \* pins exported to sysfs
  irqRegistered,  \* request_irq succeeded and free_irq has not run
  result,         \* ebbgpio_init's local: request_irq's return value
  initPc,         \* position of ebbgpio_init
  initResult,     \* what ebbgpio_init returned
  task,           \* struct task_struct *task: "none", "run", "exited", "err"
  shouldStop,     \* kthread_should_stop()
  threadPc,       \* position of kThread_run
  modeReg,        \* the value of mode kThread_run loaded at line 46
  irqPc,          \* position of ebbgpio_irq_handler
  exitPc,         \* position of ebbgpio_exit
  reported,       \* the count printed by ebbgpio_exit, <<>> before
  exitLog,        \* history: the steps ebbgpio_exit has performed, in order
  invocations,    \* history: completed invocations of the handler
  tickLed,        \* history: ledOn when the current tick began
  tickModes,      \* history: the values mode held during the current tick
  runTicks,       \* history: completed ticks since mode last changed
  runFlips,       \* history: changes of ledOn in those ticks
  stopInSleep,    \* history: kthread_stop was called while the thread slept
  sinceOnMs,      \* history: ms slept since the last tick that wrote true
  cycleMs         \* history: ms slept between the last two ticks that wrote true

vars == <<validPins, reloadsMode, mode, numberPresses, ledOn, gpioValue,
          requested, exported, irqRegistered, result, initPc, initResult,
          task, shouldStop, threadPc, modeReg, irqPc, exitPc, reported,
          exitLog, invocations, tickLed, tickModes, runTicks, runFlips,
          stopInSleep, sinceOnMs, cycleMs>>

platformVars == <<validPins, reloadsMode>>
gpioVars == <<gpioValue, requested, exported>>
initVars == <<result, initPc, initResult>>
exitVars == <<exitPc, reported, exitLog>>
tickVars == <<tickLed, tickModes, runTicks, runFlips>>
timeVars == <<sinceOnMs, cycleMs>>

\* ------------------------------------------------- the GPIO library's effect

gpio_is_valid(pin) == pin \in validPins

\* gpio_request: fails (and holds nothing) for a pin that is not valid
gpio_request(req, pin) == IF gpio_is_valid(pin) THEN req \cup {pin} ELSE req

\* gpio_direction_output: sets the level of a pin that is held
gpio_direction_output(val, req, pin, level) ==
  IF pin \in req THEN [val EXCEPT ![pin] = level] ELSE val

\* gpio_export: only a held pin can be exported
gpio_export(exp, req, pin) == IF pin \in req THEN exp \cup {pin} ELSE exp

\* gpio_set_value: drives the line of any valid pin, held or not
gpio_set_value(val, pin, level) ==
  IF gpio_is_valid(pin) THEN [val EXCEPT ![pin] = level] ELSE val

gpio_unexport(exp, pin) == exp \ {pin}

gpio_free(req, pin) == req \ {pin}

\* ----------------------------------------------------------------- Init

Init ==
  /\ validPins \in SUBSET Pins
  /\ reloadsMode \in BOOLEAN
  /\ mode = FLASH
  /\ numberPresses = UInt(0)
  /\ ledOn = FALSE
  /\ gpioValue = [p \in Leds |-> FALSE]
  /\ requested = {}
  /\ exported = {}
  /\ irqRegistered = FALSE
  /\ result = "0"
  /\ initPc = "validate"
  /\ initResult = "none"
  /\ task = "none"
  /\ shouldStop = FALSE
  /\ threadPc = "none"
  /\ modeReg = FLASH
  /\ irqPc = "idle"
  /\ exitPc = "idle"
  /\ reported = <<>>
  /\ exitLog = <<>>
  /\ invocations = 0
  /\ tickLed = FALSE
  /\ tickModes = {}
  /\ runTicks = 0
  /\ runFlips = 0
  /\ stopInSleep = FALSE
  /\ sinceOnMs = 0
  /\ cycleMs = 0

\* --------------------------------------------------------- ebbgpio_init

\* line 71-74: the validity test of the two LED pins
InitValidate ==
  /\ initPc = "validate"
  /\ IF ~gpio_is_valid(gpioLedRED) /\ ~gpio_is_valid(gpioLedGREEN)
       THEN /\ initPc' = "returned"
            /\ initResult' = "ENODEV"
       ELSE /\ initPc' = "leds"
            /\ UNCHANGED initResult
  /\ UNCHANGED <<platformVars, mode, numberPresses, ledOn, gpioVars,
                 irqRegistered, result, task, shouldStop, threadPc, modeReg,
                 irqPc, exitVars, invocations, tickVars, stopInSleep, timeVars>>

\* line 77-84: request, configure and export the two LED pins
InitLeds ==
  /\ initPc = "leds"
  /\ LET req == gpio_request(gpio_request(requested, gpioLedRED), gpioLedGREEN)
         val == gpio_direction_output(
                  gpio_direction_output(gpioValue, req, gpioLedRED,
                                        currentStateLedRED),
                  req, gpioLedGREEN, currentStateLedGREEN)
     IN /\ requested' = req
        /\ gpioValue' = val
        /\ exported' = gpio_export(gpio_export(exported, req, gpioLedRED),
                                   req, gpioLedGREEN)
  /\ initPc' = "button"
  /\ UNCHANGED <<platformVars, mode, numberPresses, ledOn, irqRegistered,
                 result, initResult, task, shouldStop, threadPc, modeReg,
                 irqPc, exitVars, invocations, tickVars, stopInSleep, timeVars>>

\* line 85-91: request, configure and export the button pin
InitButton ==
  /\ initPc = "button"
  /\ LET req == gpio_request(requested, gpioButton)
     IN /\ requested' = req
        /\ exported' = gpio_export(exported, req, gpioButton)
  /\ initPc' = "irq"
  /\ UNCHANGED <<platformVars, mode, numberPresses, ledOn, gpioValue,
                 irqRegistered, result, initResult, task, shouldStop,
                 threadPc, modeReg, irqPc, exitVars, invocations, tickVars,
                 stopInSleep, timeVars>>

\* line 94-104: gpio_to_irq and request_irq; the result is only logged.
\* An invalid button pin maps to no interrupt line, so request_irq fails;
\* for a valid one the kernel may grant the line or refuse it.
InitRequestIrq ==
  /\ initPc = "irq"
  /\ \E ok \in BOOLEAN :
       /\ ok => gpio_is_valid(gpioButton)
       /\ irqRegistered' = ok
       /\ result' = IF ok THEN "0" ELSE "EIRQ"
  /\ initPc' = "spawn"
  /\ UNCHANGED <<platformVars, mode, numberPresses, ledOn, gpioVars,
                 initResult, task, shouldStop, threadPc, modeReg, irqPc,
                 exitVars, invocations, tickVars, stopInSleep, timeVars>>

\* line 106-110: kthread_run; on failure return PTR_ERR(task) at once
InitSpawn ==
  /\ initPc = "spawn"
  /\ \E ok \in BOOLEAN :
       IF ok
         THEN /\ task' = "run"
              /\ threadPc' = "check"
              /\ initPc' = "return"
              /\ UNCHANGED initResult
         ELSE /\ task' = "err"
              /\ initPc' = "returned"
              /\ initResult' = "ETASK"
              /\ UNCHANGED threadPc
  /\ UNCHANGED <<platformVars, mode, numberPresses, ledOn, gpioVars,
                 irqRegistered, result, shouldStop, modeReg, irqPc, exitVars,
                 invocations, tickVars, stopInSleep, timeVars>>

\* line 111: return result
InitReturn ==
  /\ initPc = "return"
  /\ initPc' = "returned"
  /\ initResult' = result
  /\ UNCHANGED <<platformVars, mode, numberPresses, ledOn, gpioVars,
                 irqRegistered, result, task, shouldStop, threadPc, modeReg,
                 irqPc, exitVars, invocations, tickVars, stopInSleep, timeVars>>

\* ------------------------------------------------- ebbgpio_irq_handler

\* the handler with its else branch lost: FLASH becomes ON and stays ON
ToggleModeNoElse(m) == IF m = FLASH THEN ON ELSE m

\* the handler stepping through all three modes: FLASH, ON, OFF, FLASH, ...
ToggleModeCycle(m) == IF m = FLASH THEN ON ELSE IF m = ON THEN OFF ELSE FLASH

\* line 150-157: if (mode == FLASH) mode = ON; else mode = FLASH;
ToggleMode(m) == IF m = FLASH THEN ON ELSE FLASH

\* the counter declared unsigned short: the low limb wraps without a carry
IncrementShort(n) == <<n[1], (n[2] + 1) % Limb>>

\* line 158: numberPresses++ on an unsigned int: the low limb carries into
\* the high one and the largest value is followed by 0
Increment(n) ==
  IF n[2] + 1 < Limb THEN <<n[1], n[2] + 1>>
  ELSE IF n[1] + 1 < Limb THEN <<n[1] + 1, 0>>
  ELSE <<0, 0>>

InTick == threadPc \in {"test1", "test2", "green", "red"}

\* the handler with the statements commented out at lines 146-147 restored:
\* it inverts both LED outputs itself before setting the mode
IrqToggleWithLed ==
  /\ irqRegistered
  /\ irqPc = "idle"
  /\ invocations < MaxPresses
  /\ gpioValue' = gpio_set_value(
                    gpio_set_value(gpioValue, gpioLedRED,
                                   ~gpioValue[gpioLedRED]),
                    gpioLedGREEN, ~gpioValue[gpioLedGREEN])
  /\ mode' = ToggleMode(mode)
  /\ irqPc' = "count"
  /\ tickModes' = IF InTick THEN tickModes \cup {mode'} ELSE tickModes
  /\ runTicks' = 0
  /\ runFlips' = 0
  /\ UNCHANGED <<platformVars, numberPresses, ledOn, requested, exported,
                 irqRegistered, initVars, task, shouldStop, threadPc, modeReg,
                 exitVars, invocations, tickLed, stopInSleep, timeVars>>

\* line 145-157: the handler is entered (the line is masked while it runs,
\* so never while another invocation is in progress) and sets the mode
IrqToggle ==
  /\ irqRegistered
  /\ irqPc = "idle"
  /\ invocations < MaxPresses
  /\ mode' = ToggleMode(mode)
  /\ irqPc' = "count"
  /\ tickModes' = IF InTick THEN tickModes \cup {mode'} ELSE tickModes
  /\ runTicks' = 0
  /\ runFlips' = 0
  /\ UNCHANGED <<platformVars, numberPresses, ledOn, gpioVars, irqRegistered,
                 initVars, task, shouldStop, threadPc, modeReg, exitVars,
                 invocations, tickLed, stopInSleep, timeVars>>

\* line 158-159: count the press and return IRQ_HANDLED
IrqCount ==
  /\ irqPc = "count"
  /\ numberPresses' = Increment(numberPresses)
  /\ irqPc' = "idle"
  /\ invocations' = invocations + 1
  /\ UNCHANGED <<platformVars, mode, ledOn, gpioVars, irqRegistered, initVars,
                 task, shouldStop, threadPc, modeReg, exitVars, tickVars,
                 stopInSleep, timeVars>>

\* ----------------------------------------------------------- kThread_run

\* the flash branch assigning true where it should invert
InvertLedStuck(led) == TRUE

\* line 46: ledOn = !ledOn
InvertLed(led) == ~led

\* the second test comparing against OFF where it should compare against ON
ForcedLedWrongTest(m) == IF m = OFF THEN TRUE ELSE FALSE

\* the second test lost: every mode but FLASH lights the LED
ForcedLedNotFlash(m) == m # FLASH

\* line 47-48: else if (mode==ON) ledOn = true; else ledOn = false;
ForcedLed(m) == IF m = ON THEN TRUE ELSE FALSE

\* the loop as while(1): the stop flag is never looked at
ThreadCheckForever ==
  /\ threadPc = "check"
  /\ threadPc' = "test1"
  /\ tickLed' = ledOn
  /\ tickModes' = {mode}
  /\ UNCHANGED <<platformVars, mode, numberPresses, ledOn, gpioVars,
                 irqRegistered, initVars, task, shouldStop, modeReg, irqPc,
                 exitVars, invocations, runTicks, runFlips, stopInSleep, timeVars>>

\* line 44: while(!kthread_should_stop()); line 54: return 0
ThreadCheck ==
  /\ threadPc = "check"
  /\ IF shouldStop
       THEN /\ threadPc' = "exited"
            /\ task' = "exited"
            /\ UNCHANGED <<tickLed, tickModes>>
       ELSE /\ threadPc' = "test1"
            /\ tickLed' = ledOn
            /\ tickModes' = {mode}
            /\ UNCHANGED task
  /\ UNCHANGED <<platformVars, mode, numberPresses, ledOn, gpioVars,
                 irqRegistered, initVars, shouldStop, modeReg, irqPc,
                 exitVars, invocations, runTicks, runFlips, stopInSleep, timeVars>>

\* line 46: if (mode==FLASH) ledOn = !ledOn;
ThreadTestFlash ==
  /\ threadPc = "test1"
  /\ modeReg' = mode
  /\ IF mode = FLASH
       THEN /\ ledOn' = InvertLed(ledOn)
            /\ threadPc' = "green"
       ELSE /\ threadPc' = "test2"
            /\ UNCHANGED ledOn
  /\ UNCHANGED <<platformVars, mode, numberPresses, gpioVars, irqRegistered,
                 initVars, task, shouldStop, irqPc, exitVars, invocations,
                 tickVars, stopInSleep, timeVars>>

\* line 47-48: mode is a plain int shared with the handler: the build either
\* loads it again here or reuses the value loaded at line 46
ThreadTestOn ==
  /\ threadPc = "test2"
  /\ ledOn' = ForcedLed(IF reloadsMode THEN mode ELSE modeReg)
  /\ threadPc' = "green"
  /\ UNCHANGED <<platformVars, mode, numberPresses, gpioVars, irqRegistered,
                 initVars, task, shouldStop, modeReg, irqPc, exitVars,
                 invocations, tickVars, stopInSleep, timeVars>>

\* line 49: gpio_set_value(gpioLedGREEN,ledOn)
ThreadSetGreen ==
  /\ threadPc = "green"
  /\ gpioValue' = gpio_set_value(gpioValue, gpioLedGREEN, ledOn)
  /\ threadPc' = "red"
  /\ UNCHANGED <<platformVars, mode, numberPresses, ledOn, requested,
                 exported, irqRegistered, initVars, task, shouldStop, modeReg,
                 irqPc, exitVars, invocations, tickVars, stopInSleep, timeVars>>

\* line 50 written as a copy of line 49: the green pin twice, the red never
ThreadSetRedWritesGreen ==
  /\ threadPc = "red"
  /\ gpioValue' = gpio_set_value(gpioValue, gpioLedGREEN, ledOn)
  /\ threadPc' = "sleep"
  /\ IF Cardinality(tickModes) = 1 /\ runTicks < MaxTicks
       THEN /\ runTicks' = runTicks + 1
            /\ runFlips' = runFlips + (IF ledOn # tickLed THEN 1 ELSE 0)
       ELSE UNCHANGED <<runTicks, runFlips>>
  /\ IF ledOn
       THEN /\ cycleMs' = sinceOnMs
            /\ sinceOnMs' = 0
       ELSE UNCHANGED <<sinceOnMs, cycleMs>>
  /\ UNCHANGED <<platformVars, mode, numberPresses, ledOn, requested,
                 exported, irqRegistered, initVars, task, shouldStop, modeReg,
                 irqPc, exitVars, invocations, tickLed, tickModes,
                 stopInSleep>>

\* line 50: gpio_set_value(gpioLedRED, ledOn); the tick's writes are done
ThreadSetRed ==
  /\ threadPc = "red"
  /\ gpioValue' = gpio_set_value(gpioValue, gpioLedRED, ledOn)
  /\ threadPc' = "sleep"
  /\ IF Cardinality(tickModes) = 1 /\ runTicks < MaxTicks
       THEN /\ runTicks' = runTicks + 1
            /\ runFlips' = runFlips + (IF ledOn # tickLed THEN 1 ELSE 0)
       ELSE UNCHANGED <<runTicks, runFlips>>
  /\ IF ledOn
       THEN /\ cycleMs' = sinceOnMs
            /\ sinceOnMs' = 0
       ELSE UNCHANGED <<sinceOnMs, cycleMs>>
  /\ UNCHANGED <<platformVars, mode, numberPresses, ledOn, requested,
                 exported, irqRegistered, initVars, task, shouldStop, modeReg,
                 irqPc, exitVars, invocations, tickLed, tickModes,
                 stopInSleep>>

\* the sleep the comment at line 52 describes: half of the period
SleepMsHalf == blinkPeriod \div 2

\* line 52: the argument of msleep, an unsigned division
SleepMs == blinkPeriod \div 3

\* line 51-52: msleep(blinkPeriod/3) returns when its time has passed
ThreadSleep ==
  /\ threadPc = "sleep"
  /\ threadPc' = "check"
  /\ sinceOnMs' = IF sinceOnMs < MaxSleeps * SleepMs
                    THEN sinceOnMs + SleepMs
                    ELSE sinceOnMs
  /\ UNCHANGED <<platformVars, mode, numberPresses, ledOn, gpioVars,
                 irqRegistered, initVars, task, shouldStop, modeReg, irqPc,
                 exitVars, invocations, tickVars, stopInSleep, cycleMs>>

Thread ==
  \/ ThreadCheck
  \/ ThreadTestFlash
  \/ ThreadTestOn
  \/ ThreadSetGreen
  \/ ThreadSetRed
  \/ ThreadSleep

\* ---------------------------------------------------------- ebbgpio_exit

\* The module loader calls the exit function only of a module whose init
\* function returned 0.
\* line 120: kthread_stop(task) sets the stop flag and wakes the thread
ExitStop ==
  /\ initPc = "returned"
  /\ initResult = "0"
  /\ exitPc = "idle"
  /\ shouldStop' = TRUE
  /\ stopInSleep' = (threadPc = "sleep")
  /\ exitPc' = "join"
  /\ exitLog' = Append(exitLog, "stop")
  /\ UNCHANGED <<platformVars, mode, numberPresses, ledOn, gpioVars,
                 irqRegistered, initVars, task, threadPc, modeReg, irqPc,
                 reported, invocations, tickVars, timeVars>>

\* a stop that only raises the flag and returns without waiting for the thread
ExitJoinNoWait ==
  /\ exitPc = "join"
  /\ exitPc' = "report"
  /\ exitLog' = Append(exitLog, "join")
  /\ UNCHANGED <<platformVars, mode, numberPresses, ledOn, gpioVars,
                 irqRegistered, initVars, task, shouldStop, threadPc, modeReg,
                 irqPc, reported, invocations, tickVars, stopInSleep, timeVars>>

\* line 120: kthread_stop(task) returns once the thread function has returned
ExitJoin ==
  /\ exitPc = "join"
  /\ threadPc = "exited"
  /\ exitPc' = "report"
  /\ exitLog' = Append(exitLog, "join")
  /\ UNCHANGED <<platformVars, mode, numberPresses, ledOn, gpioVars,
                 irqRegistered, initVars, task, shouldStop, threadPc, modeReg,
                 irqPc, reported, invocations, tickVars, stopInSleep, timeVars>>

\* line 121-122: print the button state and numberPresses
ExitReport ==
  /\ exitPc = "report"
  /\ reported' = numberPresses
  /\ exitPc' = "ledsOff"
  /\ exitLog' = Append(exitLog, "report")
  /\ UNCHANGED <<platformVars, mode, numberPresses, ledOn, gpioVars,
                 irqRegistered, initVars, task, shouldStop, threadPc, modeReg,
                 irqPc, invocations, tickVars, stopInSleep, timeVars>>

\* the shutdown switching off the red LED only
ExitLedsOffRedOnly ==
  /\ exitPc = "ledsOff"
  /\ gpioValue' = gpio_set_value(gpioValue, gpioLedRED, FALSE)
  /\ exitPc' = "unexportLeds"
  /\ exitLog' = Append(exitLog, "ledsOff")
  /\ UNCHANGED <<platformVars, mode, numberPresses, ledOn, requested,
                 exported, irqRegistered, initVars, task, shouldStop,
                 threadPc, modeReg, irqPc, reported, invocations, tickVars,
                 stopInSleep, timeVars>>

\* line 123-124: gpio_set_value(gpioLedRED, 0); gpio_set_value(gpioLedGREEN,0)
ExitLedsOff ==
  /\ exitPc = "ledsOff"
  /\ gpioValue' = gpio_set_value(gpio_set_value(gpioValue, gpioLedRED, FALSE),
                                 gpioLedGREEN, FALSE)
  /\ exitPc' = "unexportLeds"
  /\ exitLog' = Append(exitLog, "ledsOff")
  /\ UNCHANGED <<platformVars, mode, numberPresses, ledOn, requested,
                 exported, irqRegistered, initVars, task, shouldStop,
                 threadPc, modeReg, irqPc, reported, invocations, tickVars,
                 stopInSleep, timeVars>>

\* line 125-126: unexport the two LED pins
ExitUnexportLeds ==
  /\ exitPc = "unexportLeds"
  /\ exported' = gpio_unexport(gpio_unexport(exported, gpioLedRED),
                               gpioLedGREEN)
  /\ exitPc' = "freeIrq"
  /\ exitLog' = Append(exitLog, "unexportLeds")
  /\ UNCHANGED <<platformVars, mode, numberPresses, ledOn, gpioValue,
                 requested, irqRegistered, initVars, task, shouldStop,
                 threadPc, modeReg, irqPc, reported, invocations, tickVars,
                 stopInSleep, timeVars>>

\* line 127: free_irq waits for a running handler, then removes it
ExitFreeIrq ==
  /\ exitPc = "freeIrq"
  /\ irqPc = "idle"
  /\ irqRegistered' = FALSE
  /\ exitPc' = "unexportButton"
  /\ exitLog' = Append(exitLog, "freeIrq")
  /\ UNCHANGED <<platformVars, mode, numberPresses, ledOn, gpioVars, initVars,
                 task, shouldStop, threadPc, modeReg, irqPc, reported,
                 invocations, tickVars, stopInSleep, timeVars>>

\* line 128: unexport the button pin
ExitUnexportButton ==
  /\ exitPc = "unexportButton"
  /\ exported' = gpio_unexport(exported, gpioButton)
  /\ exitPc' = "free"
  /\ exitLog' = Append(exitLog, "unexportButton")
  /\ UNCHANGED <<platformVars, mode, numberPresses, ledOn, gpioValue,
                 requested, irqRegistered, initVars, task, shouldStop,
                 threadPc, modeReg, irqPc, reported, invocations, tickVars,
                 stopInSleep, timeVars>>

\* the shutdown freeing the two LED pins and forgetting the button pin
ExitFreeLedsOnly ==
  /\ exitPc = "free"
  /\ requested' = gpio_free(gpio_free(requested, gpioLedRED), gpioLedGREEN)
  /\ exitPc' = "returned"
  /\ exitLog' = Append(exitLog, "free")
  /\ UNCHANGED <<platformVars, mode, numberPresses, ledOn, gpioValue,
                 exported, irqRegistered, initVars, task, shouldStop,
                 threadPc, modeReg, irqPc, reported, invocations, tickVars,
                 stopInSleep, timeVars>>

\* line 129-132: free the three pins and return
ExitFree ==
  /\ exitPc = "free"
  /\ requested' = gpio_free(gpio_free(gpio_free(requested, gpioLedRED),
                                      gpioLedGREEN), gpioButton)
  /\ exitPc' = "returned"
  /\ exitLog' = Append(exitLog, "free")
  /\ UNCHANGED <<platformVars, mode, numberPresses, ledOn, gpioValue,
                 exported, irqRegistered, initVars, task, shouldStop,
                 threadPc, modeReg, irqPc, reported, invocations, tickVars,
                 stopInSleep, timeVars>>

\* ------------------------------------------------------------ the system

Next ==
  \/ InitValidate
  \/ InitLeds
  \/ InitButton
  \/ InitRequestIrq
  \/ InitSpawn
  \/ InitReturn
  \/ IrqToggle
  \/ IrqCount
  \/ ThreadCheck
  \/ ThreadTestFlash
  \/ ThreadTestOn
  \/ ThreadSetGreen
  \/ ThreadSetRed
  \/ ThreadSleep
  \/ ExitStop
  \/ ExitJoin
  \/ ExitReport
  \/ ExitLedsOff
  \/ ExitUnexportLeds
  \/ ExitFreeIrq
  \/ ExitUnexportButton
  \/ ExitFree

Spec == Init /\ [][Next]_vars

\* The module in the middle of a run: ebbgpio_init has returned 0 with all
\* three pins valid, the thread is about to test its loop condition, and the
\* globals hold mode m, count n and LED value led.
Running(m, n, led) ==
  /\ validPins = Pins
  /\ reloadsMode \in BOOLEAN
  /\ mode = m
  /\ numberPresses = n
  /\ ledOn = led
  /\ gpioValue = [p \in Leds |-> led]
  /\ requested = Pins
  /\ exported = Pins
  /\ irqRegistered = TRUE
  /\ result = "0"
  /\ initPc = "returned"
  /\ initResult = "0"
  /\ task = "run"
  /\ shouldStop = FALSE
  /\ threadPc = "check"
  /\ modeReg = m
  /\ irqPc = "idle"
  /\ exitPc = "idle"
  /\ reported = <<>>
  /\ exitLog = <<>>
  /\ invocations = 0
  /\ tickLed = led
  /\ tickModes = {}
  /\ runTicks = 0
  /\ runFlips = 0
  /\ stopInSleep = FALSE
  /\ sinceOnMs = 0
  /\ cycleMs = 0

\* what can happen once ebbgpio_init has returned
RunNext ==
  \/ IrqToggle
  \/ IrqCount
  \/ ThreadCheck
  \/ ThreadTestFlash
  \/ ThreadTestOn
  \/ ThreadSetGreen
  \/ ThreadSetRed
  \/ ThreadSleep
  \/ ExitStop
  \/ ExitJoin
  \/ ExitReport
  \/ ExitLedsOff
  \/ ExitUnexportLeds
  \/ ExitFreeIrq
  \/ ExitUnexportButton
  \/ ExitFree

\* The running module with mode any value of the enum, OFF included, which no
\* code path assigns: the thread's rendering of every mode.
AnyModeInit == \E m \in Modes, led \in BOOLEAN : Running(m, UInt(0), led)

AnyModeSpec == AnyModeInit /\ [][RunNext]_vars

\* The mode the handler has left after n presses (line 150-158): ON after an
\* odd number, FLASH after an even one.
ModeAfter(n) == IF n[2] % 2 = 1 THEN ON ELSE FLASH

\* Press counts of a module that has been loaded for a long time: at the
\* carry between the limbs and at the end of the unsigned int's range.
LongRun == {UInt(0), <<0, Limb - 1>>, <<Limb - 1, Limb - 2>>, UIntMax}

LongRunInit ==
  \E n \in LongRun, led \in BOOLEAN : Running(ModeAfter(n), n, led)

LongRunSpec == LongRunInit /\ [][RunNext]_vars

\* The scheduler runs a runnable kernel thread and msleep's timer expires;
\* an entered interrupt handler and a started ebbgpio_exit run to their end.
Exit ==
  \/ ExitJoin
  \/ ExitReport
  \/ ExitLedsOff
  \/ ExitUnexportLeds
  \/ ExitFreeIrq
  \/ ExitUnexportButton
  \/ ExitFree

FairSpec == Spec /\ WF_vars(Thread) /\ WF_vars(IrqCount) /\ WF_vars(Exit)

\* ------------------------------------------------------------ properties

ValidLeds == Leds \cap validPins
TickDone == threadPc \in {"sleep", "check"}
ThreadAlive == threadPc \notin {"none", "exited"}
NothingAcquired ==
  /\ requested = {}
  /\ exported = {}
  /\ ~irqRegistered
  /\ task = "none"

\* C1: after i completed invocations of the interrupt handler the mode is ON
\* for odd i and FLASH for even i, and numberPresses equals i, whatever the
\* thread has done in between.
C1_ModeAlternates ==
  irqPc = "idle" =>
    /\ numberPresses = UInt(invocations)
    /\ mode = (IF invocations % 2 = 1 THEN ON ELSE FLASH)

C1_Witness ==
  /\ irqPc = "idle"
  /\ invocations = 3
  /\ numberPresses = UInt(3)
  /\ mode = ON
  /\ threadPc = "red"

\* C2: while mode stays FLASH with no interrupt, K completed ticks have
\* flipped ledOn exactly K times: each tick ends with ledOn the negation of
\* what it was when the tick began, and with that value on both LED outputs.
C2_FlashFlipsEveryTick ==
  mode = FLASH =>
    /\ runFlips = runTicks
    /\ (TickDone /\ runTicks >= 1) =>
         /\ ledOn = ~tickLed
         /\ \A p \in ValidLeds : gpioValue[p] = ledOn

C2_Witness ==
  /\ mode = FLASH
  /\ invocations = 2
  /\ threadPc = "sleep"
  /\ runTicks = 3
  /\ runFlips = 3
  /\ ValidLeds = Leds

\* C3: while mode stays ON with no interrupt, after every tick ledOn and both
\* LED outputs are true, and from the second such tick on ledOn does not
\* change any more.
C3_OnForcesTrue ==
  mode = ON =>
    /\ runFlips <= 1
    /\ (TickDone /\ runTicks >= 1) =>
         /\ ledOn = TRUE
         /\ \A p \in ValidLeds : gpioValue[p] = TRUE
    /\ (TickDone /\ runTicks >= 2) => tickLed = TRUE

C3_Witness ==
  /\ mode = ON
  /\ threadPc = "sleep"
  /\ runTicks = 3
  /\ ValidLeds = Leds
  /\ gpioValue[gpioLedRED] = TRUE
  /\ gpioValue[gpioLedGREEN] = TRUE

\* C4: once kthread_stop has been called the thread eventually leaves its
\* loop and exits, and if the call came while the thread slept the thread
\* exits without entering the loop body again, so without another LED write.
C4_StopTerminates ==
  /\ shouldStop ~> (threadPc = "exited")
  /\ [](stopInSleep => threadPc \in {"sleep", "check", "exited"})

C4_Witness ==
  /\ stopInSleep
  /\ threadPc = "exited"
  /\ runTicks >= 1

\* C5: ebbgpio_exit goes past kthread_stop only when the thread has exited,
\* and while the thread is alive every pin acquired at startup is still
\* requested and exported.
C5_ShutdownJoins ==
  /\ exitPc \notin {"idle", "join"} => threadPc = "exited"
  /\ ThreadAlive => (requested = validPins /\ exported = validPins)

C5_Witness ==
  /\ exitPc = "returned"
  /\ threadPc = "exited"
  /\ ~stopInSleep
  /\ requested = {}

\* C6: with an invalid LED pin (red or green) and a valid button pin,
\* ebbgpio_init returns the invalid-pin error and acquires nothing.
C6_InvalidLedAcquiresNothing ==
  ((~gpio_is_valid(gpioLedRED) \/ ~gpio_is_valid(gpioLedGREEN))
     /\ gpio_is_valid(gpioButton)) =>
    /\ NothingAcquired
    /\ initPc = "returned" => initResult = "ENODEV"

\* C7: with an invalid button pin and both LED pins valid, ebbgpio_init
\* returns an error and acquires nothing.
C7_InvalidButtonAcquiresNothing ==
  (gpio_is_valid(gpioLedRED) /\ gpio_is_valid(gpioLedGREEN)
     /\ ~gpio_is_valid(gpioButton)) =>
    /\ NothingAcquired
    /\ initPc = "returned" => initResult \notin {"none", "0"}

\* C8: if request_irq fails, ebbgpio_init returns an error with all three
\* pins unexported and freed and no thread running.
C8_IrqFailureReleasesAll ==
  (validPins = Pins /\ initPc = "returned" /\ result = "EIRQ") =>
    /\ initResult \notin {"none", "0"}
    /\ requested = {}
    /\ exported = {}
    /\ ~ThreadAlive

\* C9: if kthread_run fails, ebbgpio_init returns an error with all three
\* pins unexported and freed and the interrupt handler unregistered.
C9_SpawnFailureReleasesAll ==
  (validPins = Pins /\ initPc = "returned" /\ task = "err") =>
    /\ initResult \notin {"none", "0"}
    /\ requested = {}
    /\ exported = {}
    /\ ~irqRegistered

\* The stage of the shutdown sequence each step of ebbgpio_exit belongs to:
\* 1 stop and join the thread, 2 LEDs off, 3 unexport and free the pins,
\* 4 unregister the interrupt, 5 report the press counter.
ShutdownStage(step) ==
  CASE step \in {"stop", "join"} -> 1
    [] step = "ledsOff" -> 2
    [] step \in {"unexportLeds", "unexportButton", "free"} -> 3
    [] step = "freeIrq" -> 4
    [] step = "report" -> 5

\* C10: ebbgpio_exit performs its steps in the order stop-and-join, LEDs off,
\* unexport and free, unregister the interrupt, report the counter.
C10_ShutdownOrder ==
  validPins = Pins =>
    \A i, j \in DOMAIN exitLog :
      i < j => ShutdownStage(exitLog[i]) <= ShutdownStage(exitLog[j])

\* C11: in every interleaving of interrupts with ebbgpio_exit, the count
\* reported by a completed ebbgpio_exit equals the number of handler
\* invocations that ever ran (none can run once it has returned).
C11_ReportCountsAllPresses ==
  (validPins = Pins /\ exitPc = "returned") =>
    /\ ~irqRegistered
    /\ irqPc = "idle"
    /\ reported = UInt(invocations)

\* C12: from the moment ebbgpio_exit has written the LEDs off, through its
\* return and after, both LED outputs are false: nothing writes them again.
C12_LedsOffAfterShutdown ==
  exitPc \in {"unexportLeds", "freeIrq", "unexportButton", "free", "returned"}
    => \A p \in Leds : gpioValue[p] = FALSE

C12_Witness ==
  /\ exitPc = "returned"
  /\ validPins = Pins
  /\ invocations >= 1
  /\ runTicks >= 1
  /\ ledOn = TRUE
  /\ \A p \in Leds : gpioValue[p] = FALSE

\* C13: mode is never OFF: no handler invocation, tick, startup or shutdown
\* step assigns it, and the thread never loads it.
C13_ModeNeverOff ==
  /\ mode \in {ON, FLASH}
  /\ modeReg \in {ON, FLASH}

C13_Witness ==
  /\ exitPc = "returned"
  /\ invocations = 3
  /\ mode = ON
  /\ runTicks >= 1

\* C14: a tick during which mode is OFF throughout ends with ledOn false and
\* false on both LED outputs, whatever ledOn was before.
C14_OffForcesFalse ==
  (threadPc = "sleep" /\ tickModes = {OFF}) =>
    /\ ledOn = FALSE
    /\ \A p \in Leds : gpioValue[p] = FALSE

C14_Witness ==
  /\ threadPc = "sleep"
  /\ tickModes = {OFF}
  /\ tickLed = TRUE
  /\ ledOn = FALSE
  /\ gpioValue[gpioLedRED] = FALSE

\* C15: the value a tick renders is the negation of the previously rendered
\* value, for FLASH, or true, for ON, for a mode value that mode held during
\* the tick; so no tick forces the LED false when it was false already.
C15_TickRendersOneSnapshot ==
  (validPins = Pins /\ threadPc = "sleep") =>
    \/ FLASH \in tickModes /\ ledOn = ~tickLed
    \/ ON \in tickModes /\ ledOn = TRUE

\* C16: a step of the thread leaves mode and numberPresses unchanged, a step
\* of the interrupt handler leaves ledOn and both LED outputs unchanged, and
\* mode and numberPresses change in steps of the handler only.
C16_FieldOwnership ==
  [][ /\ (threadPc # "none" /\ threadPc' # threadPc)
           => UNCHANGED <<mode, numberPresses>>
      /\ irqPc' # irqPc => UNCHANGED <<ledOn, gpioValue>>
      /\ (mode' # mode \/ numberPresses' # numberPresses)
           => irqPc' # irqPc ]_vars

C16_Witness ==
  /\ irqPc = "count"
  /\ threadPc = "green"
  /\ invocations >= 1
  /\ ledOn # gpioValue[gpioLedGREEN]

Times(step) == Cardinality({i \in DOMAIN exitLog : exitLog[i] = step})

\* C17: when ebbgpio_exit has returned after a successful startup, no pin is
\* requested or exported any more, each release step has run exactly once,
\* the interrupt handler is unregistered and the thread has terminated.
C17_NothingHeldAfterShutdown ==
  exitPc = "returned" =>
    /\ initResult = "0"
    /\ requested = {}
    /\ exported = {}
    /\ ~irqRegistered
    /\ threadPc = "exited"
    /\ task = "exited"
    /\ \A step \in {"unexportLeds", "unexportButton", "freeIrq", "free"} :
         Times(step) = 1

C17_Witness ==
  /\ exitPc = "returned"
  /\ validPins = Pins
  /\ invocations >= 1
  /\ requested = {}
  /\ exported = {}

\* order and distance of two counter values
ULe(a, b) == a[1] < b[1] \/ (a[1] = b[1] /\ a[2] <= b[2])
Diff(a, b) == (b[1] - a[1]) * Limb + (b[2] - a[2])
HandlerReturns == irqPc = "count" /\ irqPc' = "idle"

\* C18 as stated: numberPresses never decreases in any step of any execution.
C18_NeverDecreases == [][ULe(numberPresses, numberPresses')]_vars

\* C18 as amended: numberPresses changes only when the handler returns; each
\* invocation raises it by exactly 1 while it is below 2^32 - 1, and the
\* invocation at 2^32 - 1 wraps it to 0.
C18_CountsModulo ==
  [][ /\ numberPresses' # numberPresses => HandlerReturns
      /\ HandlerReturns =>
           IF numberPresses = UIntMax
             THEN numberPresses' = UInt(0)
             ELSE /\ ULe(numberPresses, numberPresses')
                  /\ Diff(numberPresses, numberPresses') = 1 ]_vars

C18_Witness ==
  /\ numberPresses = UInt(0)
  /\ invocations >= 1
  /\ irqPc = "idle"

LedsAll(level) == \A p \in ValidLeds : gpioValue[p] = level

\* an interrupt has set mode to m, no handler is running, and the thread is
\* running with no stop requested
Settled(m) ==
  /\ mode = m
  /\ invocations >= 1
  /\ irqPc = "idle"
  /\ ThreadAlive
  /\ ~shouldStop

\* C19: with the thread running under a fair scheduler, if an interrupt has
\* set mode to ON and none follows, the LED outputs are eventually true for
\* good; if it has set FLASH and none follows, the outputs are true again and
\* again and false again and again.
C19_ModeReachesLed ==
  /\ <>[]Settled(ON) => <>[]LedsAll(TRUE)
  /\ <>[]Settled(FLASH) => ([]<>LedsAll(TRUE) /\ []<>LedsAll(FALSE))

C19_Witness ==
  /\ Settled(ON)
  /\ validPins = Pins
  /\ invocations = 1
  /\ runTicks >= 2
  /\ LedsAll(TRUE)

====
